---------------------------- MODULE Spec2Model ----------------------------
(***************************************************************************)
(* State-machine model of MovieLensApp (the load / train / test handlers   *)
(* of the two-tower demo) and of the parts of SimpleTwoTowerModel and      *)
(* DeepTwoTowerModel that the handlers drive.                              *)
(*                                                                         *)
(* JavaScript runs the handlers on one thread; a handler gives up control  *)
(* only at an await.  Every action below is the code that runs between two *)
(* awaits of one handler (or from the click to the first await).           *)
(*                                                                         *)
(* Tensor values are not modelled.  A model object is the run of train()   *)
(* that built it plus the number of trainStep calls started and finished   *)
(* on it; its parameters are identified by (run, started), because         *)
(* applyGradients runs synchronously inside the trainStep call.  A score   *)
(* vector is a vector of integers, unsorted and with ties.                 *)
(***************************************************************************)
EXTENDS Integers, Sequences, FiniteSets, TLC

(***************************************************************************)
(* JavaScript values that are not numbers of the data.                     *)
(***************************************************************************)
NaN == -1
Undefined == -2
Null == -3
UndefinedStr == "undefined"

(***************************************************************************)
(* this.config.  maxInteractions, batchSize and epochs are scaled down     *)
(* from 80000, 512 and 15 so that truncation, several batches and several  *)
(* epochs all happen on inputs of a few dozen lines.                       *)
(***************************************************************************)
maxInteractions == 40
batchSize == 20
epochs == 2
QualifiedMin == 20
TopK == 10

(***************************************************************************)
(* Bounds of the exploration.                                              *)
(***************************************************************************)
MaxLoads == 2
MaxTrainCalls == 2
MaxNumeral == 140

(***************************************************************************)
(* Generic sequence helpers.                                               *)
(***************************************************************************)
Min(a, b) == IF a <= b THEN a ELSE b

Range(s) == {s[i] : i \in DOMAIN s}

SeqMap(F(_), s) == [i \in DOMAIN s |-> F(s[i])]

Slice(s, start, end) ==
    IF end <= start THEN <<>> ELSE SubSeq(s, start + 1, Min(end, Len(s)))

\* The members of a finite set of integers, smallest first.
Ascending(P) ==
    [k \in 1..Cardinality(P) |->
        CHOOSE i \in P : Cardinality({j \in P : j < i}) = k - 1]

Largest(P) == CHOOSE i \in P : \A j \in P : j <= i

\* Array.from(new Set(array)): the distinct values in first-seen order.
ArrayFromSet(s) ==
    LET first == {i \in DOMAIN s : \A j \in 1..(i - 1) : s[j] # s[i]}
    IN  SeqMap(LAMBDA i : s[i], Ascending(first))

\* The result of a stable sort of s by the comparator Compare(a, b) (which
\* is negative when a goes first): s[i] lands after every entry that must
\* precede it and after the equal entries that came before it.
StableSort(Compare(_, _), s) ==
    LET before == [i \in DOMAIN s |->
                      Cardinality({j \in DOMAIN s :
                                      \/ Compare(s[j], s[i]) < 0
                                      \/ Compare(s[j], s[i]) = 0 /\ j < i})]
    IN  [k \in DOMAIN s |-> s[CHOOSE i \in DOMAIN s : before[i] = k - 1]]

CeilDiv(n, d) == (n + d - 1) \div d

(***************************************************************************)
(* A JavaScript Map: entries <<key, value>> in insertion order.  set() on  *)
(* a key already present replaces the value and keeps the position.        *)
(***************************************************************************)
EmptyMap == <<>>

MapHas(m, k) == \E i \in DOMAIN m : m[i][1] = k

MapIndex(m, k) == CHOOSE i \in DOMAIN m : m[i][1] = k

MapKeys(m) == [i \in DOMAIN m |-> m[i][1]]

MapGet(m, k) == IF MapHas(m, k) THEN m[MapIndex(m, k)][2] ELSE Undefined

\* The map after set(entries[1]), set(entries[2]), ... in that order: the
\* keys keep their first position, each with the value set last.
MapSetAll(m, entries) ==
    LET keys == ArrayFromSet(MapKeys(m) \o SeqMap(LAMBDA e : e[1], entries))
        setsOf(k) == {i \in DOMAIN entries : entries[i][1] = k}
    IN  SeqMap(LAMBDA k : <<k, IF setsOf(k) = {} THEN MapGet(m, k)
                                ELSE entries[Largest(setsOf(k))][2]>>, keys)

MapSize(m) == Len(m)

MapValues(m) == [i \in DOMAIN m |-> m[i][2]]

(***************************************************************************)
(* Text.  A file is its lines, a line is its fields after split on the     *)
(* delimiter, a field is a string.  split() always yields at least one     *)
(* field, so the blank line is <<"">>.                                     *)
(***************************************************************************)
BlankLine == <<"">>

RECURSIVE DropLeadingBlank(_)
DropLeadingBlank(lines) ==
    IF lines # <<>> /\ Head(lines) = BlankLine
    THEN DropLeadingBlank(Tail(lines)) ELSE lines

RECURSIVE DropTrailingBlank(_)
DropTrailingBlank(lines) ==
    IF lines # <<>> /\ lines[Len(lines)] = BlankLine
    THEN DropTrailingBlank(SubSeq(lines, 1, Len(lines) - 1)) ELSE lines

\* text.trim().split('\n'): blank lines at either end go; the empty text
\* still splits into one blank line.
TrimSplit(lines) ==
    LET t == DropTrailingBlank(DropLeadingBlank(lines))
    IN  IF t = <<>> THEN <<BlankLine>> ELSE t

\* Array destructuring / indexing past the end gives undefined.
Field(line, i) == IF i <= Len(line) THEN line[i] ELSE UndefinedStr

\* parseInt / parseFloat on the decimal numerals of the data; any other
\* string (and undefined) gives NaN.
ParseInt(s) ==
    IF \E n \in 0..MaxNumeral : ToString(n) = s
    THEN CHOOSE n \in 0..MaxNumeral : ToString(n) = s
    ELSE NaN

ParseFloat(s) == ParseInt(s)

\* title.match(/\((\d{4})\)$/) and title.replace(/\(\d{4}\)$/, '').trim()
\* on the titles of the data.
YearOfTitle(title) ==
    CASE title = "A (1995)" -> 1995
      [] title = "C (1996)" -> 1996
      [] OTHER -> Null

StripYear(title) ==
    CASE title = "A (1995)" -> "A"
      [] title = "C (1996)" -> "C"
      [] OTHER -> title

\* Default Array.prototype.sort order of the occupation strings; undefined
\* sorts last.
OccupationRank(occ) ==
    CASE occ = "artist" -> 1
      [] occ = "doctor" -> 2
      [] occ = "engineer" -> 3
      [] occ = "writer" -> 4
      [] OTHER -> 5

(***************************************************************************)
(* loadData, lines 61-65: the interaction records.  Nothing here throws:   *)
(* a short or non-numeric line becomes a record of NaN fields.             *)
(***************************************************************************)
ParseInteractionLine(line) ==
    [userId    |-> ParseInt(Field(line, 1)),
     itemId    |-> ParseInt(Field(line, 2)),
     rating    |-> ParseFloat(Field(line, 3)),
     timestamp |-> ParseInt(Field(line, 4))]

ParseInteractions(lines) ==
    SeqMap(ParseInteractionLine, Slice(TrimSplit(lines), 0, maxInteractions))

(***************************************************************************)
(* loadData, lines 69-82: one item line.  parts[1] is undefined on a line  *)
(* without the delimiter, and title.match then throws a TypeError.         *)
(***************************************************************************)
ItemLineThrows(parts) == Len(parts) < 2

ParseItemLine(parts) ==
    <<ParseInt(parts[1]),
      [title  |-> StripYear(parts[2]),
       year   |-> YearOfTitle(parts[2]),
       genres |-> SeqMap(ParseInt, Slice(parts, 5, Len(parts)))]>>

\* The forEach over the item lines: the entries set before the first line
\* that throws are kept in this.items.
ItemsThrow(lines) == \E i \in DOMAIN lines : ItemLineThrows(lines[i])

ItemEntries(lines) ==
    LET bad == {i \in DOMAIN lines : ItemLineThrows(lines[i])}
        good == IF bad = {} THEN lines
                ELSE SubSeq(lines, 1, Largest({i \in DOMAIN lines :
                                                 \A b \in bad : i < b} \cup {0}))
    IN  SeqMap(ParseItemLine, good)

(***************************************************************************)
(* loadData, lines 85-95: the users and the occupation vocabulary.         *)
(***************************************************************************)
\* parseInt(age) / 100 as the fraction <<numerator, denominator>>.
DivideBy100(n) == IF n = NaN THEN <<NaN, 1>> ELSE <<n, 100>>

ParseUserLine(line) ==
    <<ParseInt(Field(line, 1)),
      [age        |-> DivideBy100(ParseInt(Field(line, 2))),
       gender     |-> IF Field(line, 3) = "M" THEN 1 ELSE 0,
       occupation |-> Field(line, 4)]>>

UserEntries(lines) == SeqMap(ParseUserLine, lines)

\* The occupations Set: the occupation fields in first-seen order.
OccupationsOf(lines) == ArrayFromSet(SeqMap(LAMBDA l : Field(l, 4), lines))

\* Array.from(occupations).sort()
CompareOccupations(a, b) == OccupationRank(a) - OccupationRank(b)

SortOccupations(occs) == StableSort(CompareOccupations, occs)

\* forEach((key, i) => map.set(key, i))
SetIndexed(m, keys) ==
    MapSetAll(m, [i \in DOMAIN keys |-> <<keys[i], i - 1>>])

SortedOccupations(lines) == SortOccupations(OccupationsOf(lines))

(***************************************************************************)
(* createMappings, lines 109-134.  The four maps are the constructor's     *)
(* objects: set() adds to what earlier loads left in them.                 *)
(***************************************************************************)
\* forEach((id, index) => reverse.set(index, id))
SetReverse(m, ids) ==
    MapSetAll(m, [i \in DOMAIN ids |-> <<i - 1, ids[i]>>])

UserIdsOf(inter) == ArrayFromSet(SeqMap(LAMBDA i : i.userId, inter))

ItemIdsOf(inter) == ArrayFromSet(SeqMap(LAMBDA i : i.itemId, inter))

\* (a, b) => b.rating - a.rating || b.timestamp - a.timestamp; a NaN
\* difference is falsy, and sort treats a NaN result as 0.
CompareTopRated(a, b) ==
    LET byTime == IF a.timestamp = NaN \/ b.timestamp = NaN THEN 0
                  ELSE b.timestamp - a.timestamp
    IN  IF a.rating = NaN \/ b.rating = NaN THEN byTime
        ELSE IF b.rating - a.rating # 0 THEN b.rating - a.rating
        ELSE byTime

\* Line 131.
SortTopRated(list) == StableSort(CompareTopRated, list)

\* Lines 123-128: the interactions of each user, in file order, the users
\* in first-seen order.
GroupByUser(inter) ==
    SeqMap(LAMBDA u : <<u, SelectSeq(inter, LAMBDA i : i.userId = u)>>,
           UserIdsOf(inter))

\* Lines 130-133.
BuildUserTopRated(inter) ==
    SeqMap(LAMBDA g : <<g[1], SortTopRated(g[2])>>, GroupByUser(inter))

(***************************************************************************)
(* findQualifiedUsers, lines 136-143.                                      *)
(***************************************************************************)
Qualifies(list) == Len(list) >= QualifiedMin

FindQualifiedUsers(topRated) ==
    MapKeys(SelectSeq(topRated, LAMBDA e : Qualifies(e[2])))

(***************************************************************************)
(* getUserFeatures, lines 145-151.  users.get of an absent id is           *)
(* undefined, and user.occupation then throws a TypeError.                 *)
(***************************************************************************)
GetUserFeaturesThrows(usersMap, userId) == ~MapHas(usersMap, userId)

GetUserFeatures(usersMap, vocab, userId) ==
    LET user == MapGet(usersMap, userId)
        oneHot == [i \in 1..MapSize(vocab) |->
                     IF MapHas(vocab, user.occupation)
                        /\ MapGet(vocab, user.occupation) = i - 1
                     THEN 1 ELSE 0]
    IN  <<user.age, user.gender>> \o oneHot

\* this.items.get(id).genres: throws when the id has no item record.
GenresThrows(itemsMap, itemId) == ~MapHas(itemsMap, itemId)

Genres(itemsMap, itemId) == MapGet(itemsMap, itemId).genres

(***************************************************************************)
(* The inputs: what data/u.data, data/u.item and data/u.user can hold when *)
(* a load fetches them.                                                    *)
(*   "A"  the three-interaction scenario: two users, two items, each file  *)
(*        ending in a newline;                                             *)
(*   "B"  41 interaction lines: user 1 has 20, user 3 has 19, user 2 has   *)
(*        the last two (one is cut by maxInteractions); 14 items;          *)
(*   "D"  an interaction line "abc" (one field, not a number) and a user   *)
(*        line with two fields;                                            *)
(*   "E"  an item line without the delimiter.                              *)
(***************************************************************************)
DataIds == {"A", "B", "D", "E"}

ItemFileLine(n, title) ==
    <<ToString(n), title, "01-Jan-1995", "", "url",
      ToString(n % 2), ToString((n + 1) % 2), "0">>

InteractionsFile(d) ==
    CASE d = "A" -> << <<"1", "1", "5", "100">>, <<"1", "2", "3", "101">>,
                       <<"2", "1", "4", "102">>, BlankLine >>
      [] d = "B" ->
           [i \in 1..20 |-> <<"1", ToString(1 + ((i \div 10) % 2)), ToString(1 + (i % 5)),
                              ToString(100 + ((i * 7) % 10))>>]
           \o [j \in 1..19 |-> <<"3", ToString(3 + (j % 12)), ToString(1 + (j % 5)),
                                 ToString(120 + j)>>]
           \o << <<"2", "1", "4", "139">>, <<"2", "2", "5", "140">> >>
      [] d = "D" -> << <<"abc">>, <<"1", "1", "5", "100">> >>
      [] d = "E" -> << <<"2", "1", "4", "102">> >>

ItemsFile(d) ==
    CASE d = "A" -> << ItemFileLine(1, "A (1995)"), ItemFileLine(2, "B"),
                       BlankLine >>
      [] d = "B" -> [n \in 1..14 |->
                       ItemFileLine(n, IF n = 1 THEN "A (1995)"
                                       ELSE IF n = 2 THEN "B" ELSE "C (1996)")]
      [] d = "D" -> << ItemFileLine(1, "A (1995)") >>
      [] d = "E" -> << ItemFileLine(3, "C (1996)"), <<"garbage">>,
                       ItemFileLine(4, "B") >>

UsersFile(d) ==
    CASE d = "A" -> << <<"1", "24", "M", "engineer", "85711">>,
                       <<"2", "30", "F", "artist", "94043">>, BlankLine >>
      [] d = "B" -> << <<"1", "24", "M", "engineer", "85711">>,
                       <<"2", "30", "F", "artist", "94043">>,
                       <<"3", "41", "M", "doctor", "32067">> >>
      [] d = "D" -> << <<"1", "24", "M", "engineer", "85711">>, <<"7", "33">> >>
      [] d = "E" -> << <<"2", "30", "F", "artist", "94043">> >>

\* What the parsing of each input gives, computed once per input.
ParsedInteractions == [d \in DataIds |-> ParseInteractions(InteractionsFile(d))]

ParsedUserIds == [d \in DataIds |-> UserIdsOf(ParsedInteractions[d])]

ParsedItemIds == [d \in DataIds |-> ItemIdsOf(ParsedInteractions[d])]

ParsedUserTopRated == [d \in DataIds |-> BuildUserTopRated(ParsedInteractions[d])]

ParsedItemsThrow == [d \in DataIds |-> ItemsThrow(TrimSplit(ItemsFile(d)))]

ParsedItemEntries == [d \in DataIds |-> ItemEntries(TrimSplit(ItemsFile(d)))]

ParsedUserEntries == [d \in DataIds |-> UserEntries(TrimSplit(UsersFile(d)))]

ParsedOccupations == [d \in DataIds |-> SortedOccupations(TrimSplit(UsersFile(d)))]

(***************************************************************************)
(* The state of the application.                                           *)
(***************************************************************************)
VARIABLES
    interactions,     \* this.interactions
    items,            \* this.items
    users,            \* this.users
    occupationVocab,  \* this.occupationVocab
    userMap,          \* this.userMap
    itemMap,          \* this.itemMap
    reverseUserMap,   \* this.reverseUserMap
    reverseItemMap,   \* this.reverseItemMap
    userTopRated,     \* this.userTopRated
    qualifiedUsers,   \* this.qualifiedUsers
    simpleModel,      \* this.simpleModel
    deepModel,        \* this.deepModel
    lossHistory,      \* this.lossHistory
    isTraining,       \* this.isTraining
    status,           \* the text of the status element
    trainDisabled,    \* the disabled property of the train button
    testDisabled,     \* the disabled property of the test button
    loadCalls,        \* the loadData() calls waiting at their awaits
    trainCalls,       \* the train() calls that passed the guard, oldest first
    testCall,         \* the test() call that passed the precondition check
    loadsStarted,     \* how many times loadData() has been called
    lastEvent,        \* history: the handler step taken last
    lastInput         \* history: the input of the last load that parsed

dataStores ==
    <<interactions, items, users, occupationVocab, userMap, itemMap,
      reverseUserMap, reverseItemMap, userTopRated, qualifiedUsers>>

modelVars == <<simpleModel, deepModel, lossHistory, isTraining>>

uiVars == <<status, trainDisabled, testDisabled>>

callVars == <<loadCalls, trainCalls, testCall, loadsStarted>>

vars == <<dataStores, modelVars, uiVars, callVars, lastEvent, lastInput>>

\* null, and a model object: the train() call that built it and the
\* trainStep calls started and finished on it.
NoModel == [run |-> 0, started |-> 0, finished |-> 0]

NewModel(run) == [run |-> run, started |-> 0, finished |-> 0]

\* No test() call is waiting: there are no locals.
IdleTestCall ==
    [pc |-> "idle", phase |-> "simple", userId |-> Undefined,
     userIndex |-> Undefined, userInteractions |-> <<>>, ratedItemIds |-> {},
     numScores |-> 0, recs |-> <<>>, recsSimple |-> <<>>]

(***************************************************************************)
(* constructor, lines 2-37.  The disabled attributes of the two buttons    *)
(* come from the page, which this repository's scripts do not set: both    *)
(* values are initial states.                                              *)
(***************************************************************************)
Init ==
    /\ interactions = <<>>
    /\ items = EmptyMap
    /\ users = EmptyMap
    /\ occupationVocab = EmptyMap
    /\ userMap = EmptyMap
    /\ itemMap = EmptyMap
    /\ reverseUserMap = EmptyMap
    /\ reverseItemMap = EmptyMap
    /\ userTopRated = EmptyMap
    /\ qualifiedUsers = <<>>
    /\ simpleModel = NoModel
    /\ deepModel = NoModel
    /\ lossHistory = <<>>
    /\ isTraining = FALSE
    /\ status = "Click Load Data to start"
    /\ trainDisabled \in BOOLEAN
    /\ testDisabled \in BOOLEAN
    /\ loadCalls = 0
    /\ trainCalls = <<>>
    /\ testCall = IdleTestCall
    /\ loadsStarted = 0
    /\ lastEvent = "constructor"
    /\ lastInput = "none"

(***************************************************************************)
(* loadData, lines 46-107.                                                 *)
(***************************************************************************)
\* Lines 46-55: the click up to the first await.
LoadClick ==
    /\ loadsStarted < MaxLoads
    /\ loadsStarted' = loadsStarted + 1
    /\ loadCalls' = loadCalls + 1
    /\ status' = "Loading data..."
    /\ lastEvent' = "loadClick"
    /\ UNCHANGED <<dataStores, modelVars, trainDisabled, testDisabled,
                   trainCalls, testCall, lastInput>>

\* Lines 51-59 reject (a fetch or a text() fails): the catch at 104-106.
LoadFetchFails ==
    /\ loadCalls > 0
    /\ loadCalls' = loadCalls - 1
    /\ status' = "Error loading data"
    /\ lastEvent' = "loadError"
    /\ UNCHANGED <<dataStores, modelVars, trainDisabled, testDisabled,
                   trainCalls, testCall, loadsStarted, lastInput>>

\* Lines 61-82 when an item line throws: this.interactions is already
\* assigned and the items before the bad line are already set.
LoadParseThrows(d) ==
    /\ ParsedItemsThrow[d]
    /\ interactions' = ParsedInteractions[d]
    /\ items' = MapSetAll(items, ParsedItemEntries[d])
    /\ status' = "Error loading data"
    /\ lastEvent' = "loadError"
    /\ UNCHANGED <<users, occupationVocab, userMap, itemMap, reverseUserMap,
                   reverseItemMap, userTopRated, qualifiedUsers, trainDisabled,
                   lastInput>>

\* createMappings, lines 110-121, on the maps as they are.
CreateUserMap(userIds) == SetIndexed(userMap, userIds)

CreateReverseUserMap(userIds) == SetReverse(reverseUserMap, userIds)

CreateItemMap(itemIds) == SetIndexed(itemMap, itemIds)

CreateReverseItemMap(itemIds) == SetReverse(reverseItemMap, itemIds)

\* Lines 61-102 when nothing throws.
LoadCompletes(d) ==
    /\ ~ParsedItemsThrow[d]
    /\ interactions' = ParsedInteractions[d]
    /\ items' = MapSetAll(items, ParsedItemEntries[d])
    /\ users' = MapSetAll(users, ParsedUserEntries[d])
    /\ occupationVocab' = SetIndexed(occupationVocab, ParsedOccupations[d])
    /\ userMap' = CreateUserMap(ParsedUserIds[d])
    /\ reverseUserMap' = CreateReverseUserMap(ParsedUserIds[d])
    /\ itemMap' = CreateItemMap(ParsedItemIds[d])
    /\ reverseItemMap' = CreateReverseItemMap(ParsedItemIds[d])
    /\ userTopRated' = ParsedUserTopRated[d]
    /\ qualifiedUsers' = FindQualifiedUsers(ParsedUserTopRated[d])
    /\ status' = "Loaded. Ready to train."
    /\ trainDisabled' = FALSE
    /\ lastEvent' = "loadDone"
    /\ lastInput' = d

\* The last await of loadData resumes with the three texts.
LoadResume ==
    /\ loadCalls > 0
    /\ loadCalls' = loadCalls - 1
    /\ \E d \in DataIds : LoadParseThrows(d) \/ LoadCompletes(d)
    /\ UNCHANGED <<modelVars, testDisabled, trainCalls, testCall,
                   loadsStarted>>

(***************************************************************************)
(* train, lines 153-225, with SimpleTwoTowerModel.trainStep (two-tower.js  *)
(* 29-51) and DeepTwoTowerModel.trainStep (109-128).                       *)
(*                                                                         *)
(* A train() call past the guard is a record: pc is the await it waits at  *)
(* ("awaitSimple" line 193, "awaitDeep" line 203, "awaitFrame" line 213),  *)
(* "done" after line 224, "thrown" once an exception has left train().     *)
(* userIds and itemIds are history: the raw ids of the interactions that   *)
(* lines 176-177 turned into userIndices and itemIndices.                  *)
(***************************************************************************)
ThrownCall == [pc |-> "thrown", epoch |-> 0, batch |-> 0, numBatches |-> 0,
               userIndices |-> <<>>, itemIndices |-> <<>>,
               userIds |-> <<>>, itemIds |-> <<>>]

DoneCall == [pc |-> "done", epoch |-> 0, batch |-> 0, numBatches |-> 0,
             userIndices |-> <<>>, itemIndices |-> <<>>,
             userIds |-> <<>>, itemIds |-> <<>>]

ActiveTrainCalls ==
    {r \in DOMAIN trainCalls : trainCalls[r].pc \notin {"done", "thrown"}}

\* Lines 187-188.
BatchStart(batch) == batch * batchSize

\* The end of a batch without the Math.min of line 188.
BatchEndUnclamped(batch, n) == BatchStart(batch) + batchSize

BatchEnd(batch, n) == Min(BatchStart(batch) + batchSize, n)

\* trainStep up to its await: computeGradients and applyGradients have run
\* on the model object.
TrainStepCalled(model) == [model EXCEPT !.started = @ + 1]

\* trainStep from its await to its return.
TrainStepReturned(model) == [model EXCEPT !.finished = @ + 1]

\* A train() that resets the guard flag on its way out of an exception, as
\* a finally block around its body would.
TrainThrowsAndReleases(r) ==
    /\ trainCalls' = [trainCalls EXCEPT ![r] = ThrownCall]
    /\ isTraining' = FALSE
    /\ lastEvent' = "trainStep"
    /\ UNCHANGED <<lossHistory, trainDisabled, testDisabled, status>>

\* An exception leaves train(): nothing after the throwing statement runs,
\* so line 219 does not.
TrainThrows(r) ==
    /\ trainCalls' = [trainCalls EXCEPT ![r] = ThrownCall]
    /\ lastEvent' = "trainStep"
    /\ UNCHANGED <<lossHistory, isTraining, trainDisabled, testDisabled, status>>

\* Lines 216-224, and visualizeEmbeddings (254-293), which catches its own
\* errors and leaves one of two statuses.
TrainFinishes(r) ==
    /\ isTraining' = FALSE
    /\ trainDisabled' = FALSE
    /\ testDisabled' = FALSE
    /\ status' \in {"Embedding visualization completed.", "Error in visualization"}
    /\ trainCalls' = [trainCalls EXCEPT ![r] = DoneCall]
    /\ lastEvent' = "trainStep"
    /\ UNCHANGED <<simpleModel, deepModel, lossHistory>>

\* A batch whose two trainStep calls are both made before either is
\* awaited, as Promise.all over the two calls would.
BatchEnteredBothSteps(r, call, epoch, batch) ==
    /\ simpleModel' = TrainStepCalled(simpleModel)
    /\ deepModel' = TrainStepCalled(deepModel)
    /\ trainCalls' = [trainCalls EXCEPT ![r] =
                        [call EXCEPT !.pc = "awaitSimple", !.epoch = epoch,
                                     !.batch = batch]]
    /\ lastEvent' = "trainStep"
    /\ UNCHANGED <<lossHistory, isTraining, trainDisabled, testDisabled>>

\* Lines 186-193: batch `batch` of epoch `epoch` is entered and the simple
\* model's trainStep is called; train() waits for it.
BatchEntered(r, call, epoch, batch) ==
    /\ simpleModel' = TrainStepCalled(simpleModel)
    /\ trainCalls' = [trainCalls EXCEPT ![r] =
                        [call EXCEPT !.pc = "awaitSimple", !.epoch = epoch,
                                     !.batch = batch]]
    /\ lastEvent' = "trainStep"
    /\ UNCHANGED <<deepModel, lossHistory, isTraining, trainDisabled, testDisabled>>

\* Line 154: the guard.
TrainGuardReturns ==
    /\ isTraining
    /\ lastEvent' = "trainGuarded"
    /\ UNCHANGED <<dataStores, modelVars, uiVars, callVars, lastInput>>

\* Lines 166-167 throw a TypeError when interactions[0], its user record or
\* its item record is missing.
FeatureDimThrows ==
    \/ interactions = <<>>
    \/ GetUserFeaturesThrows(users, interactions[1].userId)
    \/ GenresThrows(items, interactions[1].itemId)

\* Lines 176-180.
NewTrainCall ==
    [pc |-> "awaitSimple", epoch |-> 0, batch |-> 0,
     numBatches |-> CeilDiv(Len(interactions), batchSize),
     userIndices |-> SeqMap(LAMBDA i : MapGet(userMap, i.userId), interactions),
     itemIndices |-> SeqMap(LAMBDA i : MapGet(itemMap, i.itemId), interactions),
     userIds |-> SeqMap(LAMBDA i : i.userId, interactions),
     itemIds |-> SeqMap(LAMBDA i : i.itemId, interactions)]

\* Lines 156-193: from the guard to the first await.  The two constructors
\* are the tensor library's and may throw.
TrainRuns ==
    /\ Len(trainCalls) < MaxTrainCalls
    /\ LET r == Len(trainCalls) + 1
       IN  \E lib \in {"ok", "simpleConstructorThrows", "deepConstructorThrows"} :
             /\ lossHistory' = <<>>
             /\ IF lib = "simpleConstructorThrows"
                THEN /\ trainCalls' = Append(trainCalls, ThrownCall)
                     /\ isTraining' = TRUE
                     /\ trainDisabled' = TRUE
                     /\ status' = "Initializing models..."
                     /\ lastEvent' = "trainStep"
                     /\ UNCHANGED <<simpleModel, deepModel, testDisabled>>
                ELSE IF FeatureDimThrows \/ lib = "deepConstructorThrows"
                THEN /\ trainCalls' = Append(trainCalls, ThrownCall)
                     /\ isTraining' = TRUE
                     /\ trainDisabled' = TRUE
                     /\ simpleModel' = NewModel(r)
                     /\ status' = "Initializing models..."
                     /\ lastEvent' = "trainStep"
                     /\ UNCHANGED <<deepModel, testDisabled>>
                ELSE IF 0 < epochs /\ 0 < NewTrainCall.numBatches
                THEN /\ trainCalls' = Append(trainCalls, NewTrainCall)
                     /\ isTraining' = TRUE
                     /\ trainDisabled' = TRUE
                     /\ simpleModel' = TrainStepCalled(NewModel(r))
                     /\ deepModel' = NewModel(r)
                     /\ status' = "Starting training for both models..."
                     /\ lastEvent' = "trainStep"
                     /\ UNCHANGED testDisabled
                ELSE /\ trainCalls' = Append(trainCalls, DoneCall)
                     /\ isTraining' = FALSE
                     /\ trainDisabled' = FALSE
                     /\ testDisabled' = FALSE
                     /\ simpleModel' = NewModel(r)
                     /\ deepModel' = NewModel(r)
                     /\ status' \in {"Embedding visualization completed.",
                                     "Error in visualization"}
                     /\ lastEvent' = "trainStep"
    /\ UNCHANGED <<dataStores, loadCalls, testCall, loadsStarted,
                   lastInput>>

\* Lines 154-193: a train() call that passes the guard.
TrainStarts ==
    /\ ~isTraining
    /\ TrainRuns

\* A train() without the guard of line 154.
TrainClickUnguarded ==
    /\ ~trainDisabled
    /\ TrainRuns

\* The train button's click listener, line 41: a disabled button fires none.
TrainClick ==
    /\ ~trainDisabled
    /\ TrainGuardReturns \/ TrainStarts

\* Lines 197-201 on the batch of `call`: the raw ids behind the dense
\* indices, read from the reverse maps as they are now.
BatchUserIds(call) ==
    SeqMap(LAMBDA u : MapGet(reverseUserMap, u),
           Slice(call.userIndices, BatchStart(call.batch),
                 BatchEnd(call.batch, Len(call.userIndices))))

BatchItemIds(call) ==
    SeqMap(LAMBDA i : MapGet(reverseItemMap, i),
           Slice(call.itemIndices, BatchStart(call.batch),
                 BatchEnd(call.batch, Len(call.userIndices))))

BatchFeaturesThrow(call) ==
    \/ \E uid \in Range(BatchUserIds(call)) : GetUserFeaturesThrows(users, uid)
    \/ \E iid \in Range(BatchItemIds(call)) : GenresThrows(items, iid)

\* Line 193 resumes: the simple model's trainStep has returned (or its
\* promise is rejected).  Lines 194-203 then call the deep model's.
TrainResumeSimple(r) ==
    /\ r \in DOMAIN trainCalls
    /\ trainCalls[r].pc = "awaitSimple"
    /\ \E rejected \in BOOLEAN :
         IF rejected
         THEN TrainThrows(r) /\ UNCHANGED <<simpleModel, deepModel>>
         ELSE IF BatchFeaturesThrow(trainCalls[r])
         THEN /\ TrainThrows(r)
              /\ simpleModel' = TrainStepReturned(simpleModel)
              /\ UNCHANGED deepModel
         ELSE /\ simpleModel' = TrainStepReturned(simpleModel)
              /\ deepModel' = TrainStepCalled(deepModel)
              /\ trainCalls' = [trainCalls EXCEPT ![r].pc = "awaitDeep"]
              /\ lastEvent' = "trainStep"
              /\ UNCHANGED <<lossHistory, isTraining, trainDisabled,
                             testDisabled, status>>
    /\ UNCHANGED <<dataStores, loadCalls, testCall, loadsStarted,
                   lastInput>>

\* The loss of a batch, as the run, epoch and batch it is the loss of.
LossOf(r, call) ==
    [run |-> r, epoch |-> call.epoch, start |-> BatchStart(call.batch),
     end |-> BatchEnd(call.batch, Len(call.userIndices))]

\* Line 203 resumes: lines 204-213.
TrainResumeDeep(r) ==
    /\ r \in DOMAIN trainCalls
    /\ trainCalls[r].pc = "awaitDeep"
    /\ \E rejected \in BOOLEAN :
         IF rejected
         THEN TrainThrows(r) /\ UNCHANGED <<simpleModel, deepModel>>
         ELSE /\ deepModel' = TrainStepReturned(deepModel)
              /\ lossHistory' = Append(lossHistory, LossOf(r, trainCalls[r]))
              /\ status' = IF trainCalls[r].batch % 10 = 0
                           THEN "Epoch, Batch, Deep Loss" ELSE status
              /\ trainCalls' = [trainCalls EXCEPT ![r].pc = "awaitFrame"]
              /\ lastEvent' = "trainStep"
              /\ UNCHANGED <<simpleModel, isTraining, trainDisabled, testDisabled>>
    /\ UNCHANGED <<dataStores, loadCalls, testCall, loadsStarted,
                   lastInput>>

\* Line 213 resumes: the next batch (186), the next epoch (182, after the
\* status of 216) or the end of train() (216-224).
TrainResumeFrame(r) ==
    /\ r \in DOMAIN trainCalls
    /\ trainCalls[r].pc = "awaitFrame"
    /\ LET call == trainCalls[r]
       IN  IF call.batch + 1 < call.numBatches
           THEN BatchEntered(r, call, call.epoch, call.batch + 1)
                /\ UNCHANGED status
           ELSE IF call.epoch + 1 < epochs
           THEN BatchEntered(r, call, call.epoch + 1, 0)
                /\ status' = "Epoch done"
           ELSE TrainFinishes(r)
    /\ UNCHANGED <<dataStores, loadCalls, testCall, loadsStarted,
                   lastInput>>

(***************************************************************************)
(* getRecommendations, lines 305-347.                                      *)
(***************************************************************************)
\* Lines 317-318.
AllItemIndices == MapValues(itemMap)

AllItemIds == SeqMap(LAMBDA i : MapGet(reverseItemMap, i), AllItemIndices)

\* scores.data(): one number per entry of allItemIndices.  The numbers come
\* from the tensor library; the vector explored is unsorted and has ties.
ScoreVector(n) == [i \in 1..n |-> (i * 5) % 7]

\* Lines 337-343: forEach passes the position in scoreData as itemIndex.
CandidatesFrom(scoreData, reverseMap, ratedItemIds) ==
    SelectSeq([pos \in DOMAIN scoreData |->
                  [itemId |-> MapGet(reverseMap, pos - 1),
                   score |-> scoreData[pos]]],
              LAMBDA c : c.itemId \notin ratedItemIds)

\* The comparator with its operands exchanged: an ascending sort.
CompareCandidatesAscending(a, b) == a.score - b.score

\* Line 345: candidates.sort((a, b) => b.score - a.score), a stable sort.
CompareCandidates(a, b) == b.score - a.score

SortCandidates(list) == StableSort(CompareCandidates, list)

\* Lines 337-346.
TopCandidates(scoreData, reverseMap, ratedItemIds) ==
    Slice(SortCandidates(CandidatesFrom(scoreData, reverseMap, ratedItemIds)),
          0, TopK)

(***************************************************************************)
(* test, lines 349-374.  The test() call past the precondition check is a  *)
(* record: phase is the model getRecommendations is running for, pc the    *)
(* await it waits at ("awaitUserEmb" line 307, "awaitScores" lines 319 and *)
(* 334, "awaitRecs" line 364 or 365); "idle" when no call is waiting.      *)
(* test() calls are explored one at a time: a test() call writes nothing   *)
(* that another one reads.                                                 *)
(***************************************************************************)
TestActive == testCall.pc # "idle"

\* The parameters of a model object, as the updates applied to it.
Parameters(model) == [run |-> model.run, updates |-> model.started]

\* The precondition with a length test that is off by one.
TestPreconditionOffByOne ==
    \/ simpleModel = NoModel
    \/ deepModel = NoModel
    \/ Len(qualifiedUsers) <= 1

\* Lines 350-353.
TestPreconditionFails ==
    \/ simpleModel = NoModel
    \/ deepModel = NoModel
    \/ Len(qualifiedUsers) = 0

TestReportsPrecondition ==
    /\ TestPreconditionFails
    /\ status' = "Models not trained or no qualified users found."
    /\ lastEvent' = "testPrecondition"
    /\ UNCHANGED <<dataStores, modelVars, trainDisabled, testDisabled,
                   callVars, lastInput>>

\* Lines 355-364, to the first await of getRecommendations for the simple
\* model (whose user tower takes no features and throws nothing here).
TestStarts ==
    /\ ~TestPreconditionFails
    /\ \E k \in DOMAIN qualifiedUsers :
         LET randomUserId == qualifiedUsers[k]
             userInteractions == MapGet(userTopRated, randomUserId)
         IN  testCall' =
                 [pc |-> "awaitUserEmb", phase |-> "simple",
                  userId |-> randomUserId,
                  userIndex |-> MapGet(userMap, randomUserId),
                  userInteractions |-> userInteractions,
                  ratedItemIds |-> {i.itemId : i \in Range(userInteractions)},
                  numScores |-> 0, recs |-> <<>>, recsSimple |-> <<>>]
    /\ status' = "Generating recommendations from both models..."
    /\ lastEvent' = "testStarted"
    /\ UNCHANGED <<dataStores, modelVars, trainDisabled, testDisabled,
                   loadCalls, trainCalls, loadsStarted, lastInput>>

\* The test button's click listener, line 42.
TestClick ==
    /\ ~testDisabled
    /\ ~TestActive
    /\ TestReportsPrecondition \/ TestStarts

\* The catch of test(), lines 370-373.
TestCatches ==
    /\ testCall' = IdleTestCall
    /\ status' = "Error generating recommendations"
    /\ lastEvent' = "testStep"

\* Line 307 resumes: lines 317-326 read the maps and the item tower, one
\* embedding per entry of allItemIndices; the deep model needs the genres
\* of every id, and a missing record throws.  Lines 328-334 ask for the
\* scores.
TestResumeUserEmb ==
    /\ testCall.pc = "awaitUserEmb"
    /\ IF testCall.phase = "deep"
          /\ \E iid \in Range(AllItemIds) : GenresThrows(items, iid)
       THEN TestCatches
       ELSE /\ testCall' = [testCall EXCEPT !.pc = "awaitScores",
                                            !.numScores = Len(AllItemIndices)]
            /\ lastEvent' = "testStep"
            /\ UNCHANGED status
    /\ UNCHANGED <<dataStores, modelVars, trainDisabled, testDisabled,
                   loadCalls, trainCalls, loadsStarted, lastInput>>

\* Line 334 resumes with the scores: lines 335-346, and getRecommendations
\* returns.
TestResumeScores ==
    /\ testCall.pc = "awaitScores"
    /\ testCall' = [testCall EXCEPT
           !.pc = "awaitRecs",
           !.recs = TopCandidates(ScoreVector(testCall.numScores),
                                  reverseItemMap, testCall.ratedItemIds)]
    /\ lastEvent' = "testStep"
    /\ UNCHANGED <<dataStores, modelVars, uiVars, loadCalls, trainCalls,
                   loadsStarted, lastInput>>

\* displayResults, lines 376-402: movie.title throws when a listed item has
\* no record in this.items.  What it renders goes to the page only.
DisplayThrows(call) ==
    \E itemId \in {row.itemId : row \in Range(Slice(call.userInteractions, 0, 10))}
                  \cup {c.itemId : c \in Range(call.recsSimple)}
                  \cup {c.itemId : c \in Range(call.recs)} :
        ~MapHas(items, itemId)

\* Line 364 resumes: line 365 calls getRecommendations for the deep model,
\* whose user tower needs getUserFeatures(userId).
\* Line 365 resumes: lines 367-368.
TestResumeRecs ==
    /\ testCall.pc = "awaitRecs"
    /\ IF testCall.phase = "simple"
       THEN IF GetUserFeaturesThrows(users, testCall.userId)
            THEN TestCatches
            ELSE /\ testCall' = [testCall EXCEPT
                        !.pc = "awaitUserEmb", !.phase = "deep",
                        !.numScores = 0, !.recs = <<>>,
                        !.recsSimple = testCall.recs]
                 /\ lastEvent' = "testStep"
                 /\ UNCHANGED status
       ELSE IF DisplayThrows(testCall)
            THEN TestCatches
            ELSE /\ testCall' = IdleTestCall
                 /\ status' = "Recommendations generated"
                 /\ lastEvent' = "testStep"
    /\ UNCHANGED <<dataStores, modelVars, trainDisabled, testDisabled,
                   loadCalls, trainCalls, loadsStarted, lastInput>>

(***************************************************************************)
(* The event loop: a click, or one waiting call resumes.                   *)
(***************************************************************************)
Next ==
    \/ LoadClick
    \/ LoadFetchFails
    \/ LoadResume
    \/ TrainClick
    \/ \E r \in 1..MaxTrainCalls : TrainResumeSimple(r)
    \/ \E r \in 1..MaxTrainCalls : TrainResumeDeep(r)
    \/ \E r \in 1..MaxTrainCalls : TrainResumeFrame(r)
    \/ TestClick
    \/ TestResumeUserEmb
    \/ TestResumeScores
    \/ TestResumeRecs

Spec == Init /\ [][Next]_vars

(***************************************************************************)
(* Properties.                                                             *)
(***************************************************************************)

\* C1: a load that ends in the load-error outcome is all-or-nothing: none
\* of interactions, items, users, occupationVocab, userMap, itemMap,
\* reverseUserMap, reverseItemMap, userTopRated and qualifiedUsers differs
\* from its value before the load started.  Every step that ends a load in
\* the error outcome must therefore leave the ten stores as they were.
LoadErrorLeavesStores ==
    [][lastEvent' = "loadError" => UNCHANGED dataStores]_vars

\* C2: at most one train() run is in progress at any time, a run in
\* progress holds the guard flag, and a train() call made while isTraining
\* is true starts no run and creates no model, clears no lossHistory and
\* runs no batch, whatever the handlers interleaved at the awaits.
OneTrainRunAtATime ==
    /\ [](/\ Cardinality(ActiveTrainCalls) <= 1
          /\ ActiveTrainCalls # {} => isTraining)
    /\ [][isTraining =>
            /\ Len(trainCalls') = Len(trainCalls)
            /\ lastEvent' = "trainGuarded" =>
                  UNCHANGED <<dataStores, modelVars, trainCalls>>]_vars

\* A train() call has returned at the guard while a run waits at an await
\* with an update of the simple model in flight.
GuardedWhileRunning ==
    /\ lastEvent = "trainGuarded"
    /\ \E r \in ActiveTrainCalls : trainCalls[r].pc = "awaitSimple"
    /\ simpleModel.started > simpleModel.finished

\* The steps from the moment test() starts computing recommendations until
\* getRecommendations has returned for both models.
InferenceWindow ==
    /\ TestActive
    /\ ~(testCall.phase = "deep" /\ testCall.pc = "awaitRecs")

\* C3: model parameters are read-only during inference: while a test() is
\* between its start and the return of getRecommendations for both models,
\* no step updates the parameters of simpleModel or deepModel or replaces
\* either model object.
ParametersReadOnlyDuringTest ==
    [][InferenceWindow =>
          /\ Parameters(simpleModel') = Parameters(simpleModel)
          /\ Parameters(deepModel') = Parameters(deepModel)]_vars

\* The two model objects were built by the same train() call.
SameRun == simpleModel.run # 0 /\ simpleModel.run = deepModel.run

\* The trainStep calls on a model that have started and not returned.
InFlight(model) == model.started - model.finished

\* C4: within a train() run the two models are never updated at the same
\* time: the simple model's update of batch b has completed before the deep
\* model's update of batch b begins, and that one has completed before the
\* simple model's update of batch b+1 begins.
TowerUpdatesInSequence ==
    SameRun =>
        /\ InFlight(simpleModel) \in {0, 1}
        /\ InFlight(deepModel) \in {0, 1}
        /\ InFlight(simpleModel) + InFlight(deepModel) <= 1
        /\ deepModel.started <= simpleModel.finished
        /\ simpleModel.started <= deepModel.finished + 1

\* The deep model's update of a second batch is in flight, after the simple
\* model's update of that batch has returned.
DeepStepOfSecondBatch ==
    /\ SameRun
    /\ deepModel.started = 2
    /\ deepModel.finished = 1
    /\ simpleModel.finished = 2
    /\ \E r \in ActiveTrainCalls : trainCalls[r].pc = "awaitDeep"

\* reverse[map[k]] = k for every key k of map.
RoundTrip(map, reverse) ==
    \A k \in Range(MapKeys(map)) : MapGet(reverse, MapGet(map, k)) = k

\* C5: in every state after a load has completed, also after several loads
\* in a row, reverseUserMap[userMap[u]] = u for every key u of userMap and
\* reverseItemMap[itemMap[i]] = i for every key i of itemMap.
ReverseMapsInvertMaps ==
    lastInput # "none" =>
        /\ RoundTrip(userMap, reverseUserMap)
        /\ RoundTrip(itemMap, reverseItemMap)

\* A list that holds no excluded item and at most 10 entries, by score
\* descending.
FilteredTopSorted(list, excluded) ==
    /\ \A i \in DOMAIN list : list[i].itemId \notin excluded
    /\ Len(list) <= 10
    /\ \A i \in DOMAIN list : \A j \in DOMAIN list :
          i < j => list[i].score >= list[j].score

MalformedLine(line, fieldCount) ==
    \/ Len(line) # fieldCount
    \/ ParseInt(Field(line, 1)) = NaN

MalformedInputs ==
    {d \in DataIds :
        \/ \E i \in DOMAIN TrimSplit(InteractionsFile(d)) :
              \/ MalformedLine(TrimSplit(InteractionsFile(d))[i], 4)
              \/ ParseInt(Field(TrimSplit(InteractionsFile(d))[i], 2)) = NaN
        \/ \E i \in DOMAIN TrimSplit(UsersFile(d)) :
              MalformedLine(TrimSplit(UsersFile(d))[i], 5)}

\* C7: a load whose input contains a malformed line (wrong field count or
\* non-numeric id) ends in the load-error outcome: it does not complete
\* with a record stored for that line and training enabled.  So a load that
\* has just completed read no input with a malformed line.
MalformedLineIsLoadError ==
    (lastEvent = "loadDone" /\ ~trainDisabled) => lastInput \notin MalformedInputs

\* A train() call has ended by an exception.
AnyTrainThrown == \E r \in DOMAIN trainCalls : trainCalls[r].pc = "thrown"

\* C8: once a trainStep (or anything else inside train()) has thrown, the
\* error has left train() with isTraining still true: no later step of the
\* batch and no remaining batch runs, and every later train() call returns
\* at the guard without training, so no model is created or updated, no
\* loss recorded and no run started from then on.
ThrownTrainKeepsGuard ==
    /\ [](AnyTrainThrown => isTraining /\ ActiveTrainCalls = {})
    /\ [][AnyTrainThrown => UNCHANGED <<modelVars, trainCalls>>]_vars

\* After a train() ended by an exception in a batch, a later train() call
\* has returned at the guard.
GuardedAfterThrow ==
    /\ AnyTrainThrown
    /\ lastEvent = "trainGuarded"
    /\ simpleModel.started > 0

\* A train() call has run to its end.
AnyTrainDone == \E r \in DOMAIN trainCalls : trainCalls[r].pc = "done"

\* A test() call that reports the precondition failure computes nothing and
\* changes no data store, model, guard flag or call.
PreconditionOnlyReports ==
    [][lastEvent' = "testPrecondition" =>
          /\ TestPreconditionFails
          /\ status' = "Models not trained or no qualified users found."
          /\ UNCHANGED <<dataStores, modelVars, callVars>>]_vars

\* C9 as stated: the precondition failure only reports, and a test() call
\* made after a successful load and a completed train() proceeds, so none
\* made then reports the precondition failure.
TestRetriableAfterLoadAndTrain ==
    /\ PreconditionOnlyReports
    /\ [](lastEvent = "testPrecondition" =>
             ~(lastInput # "none" /\ AnyTrainDone))

\* C9, amended: the precondition failure only reports, and a test() call
\* made after a completed train(), when the last completed load has left a
\* qualified user, proceeds to generate recommendations.
TestRetriableWithQualifiedUsers ==
    /\ PreconditionOnlyReports
    /\ [](lastEvent = "testPrecondition" =>
             ~(Len(qualifiedUsers) > 0 /\ AnyTrainDone))

\* A test() call made after a load and a completed train() has passed the
\* precondition check and waits in getRecommendations.
TestProceeds ==
    /\ lastEvent = "testStarted"
    /\ TestActive
    /\ AnyTrainDone
    /\ lastInput # "none"
    /\ Len(qualifiedUsers) > 0

\* The interactions of a user in this.interactions.
InteractionCount(userId) ==
    Cardinality({i \in DOMAIN interactions : interactions[i].userId = userId})

\* C10: after any completed load, qualifiedUsers holds a raw userId if and
\* only if the interactions with that userId in the current truncated
\* interaction sequence number at least 20, and holds each such userId
\* once.
QualifiedMatchesCounts ==
    lastInput # "none" =>
        /\ \A u \in {interactions[i].userId : i \in DOMAIN interactions}
                       \cup Range(qualifiedUsers) :
              u \in Range(qualifiedUsers) <=> InteractionCount(u) >= 20
        /\ Cardinality(Range(qualifiedUsers)) = Len(qualifiedUsers)

\* How often a record occurs in a list.
Occurrences(list, x) == Cardinality({i \in DOMAIN list : list[i] = x})

\* The list holds exactly the interactions of userId in this.interactions.
HoldsInteractionsOf(list, userId) ==
    LET own == SelectSeq(interactions, LAMBDA i : i.userId = userId)
    IN  /\ Len(list) = Len(own)
        /\ \A x \in Range(own) : Occurrences(list, x) = Occurrences(own, x)

\* Rating non-increasing along the list and, among adjacent entries of
\* equal rating, timestamp non-increasing.
TopRatedOrder(list) ==
    \A i \in 1..(Len(list) - 1) :
        /\ list[i].rating >= list[i + 1].rating
        /\ list[i].rating = list[i + 1].rating =>
              list[i].timestamp >= list[i + 1].timestamp

\* userTopRated has a list for every user of this.interactions, each list
\* holds that user's interactions, in the order above.
TopRatedOfInteractions ==
    /\ Range(MapKeys(userTopRated)) =
          {interactions[i].userId : i \in DOMAIN interactions}
    /\ \A u \in Range(MapKeys(userTopRated)) :
          /\ HoldsInteractionsOf(MapGet(userTopRated, u), u)
          /\ TopRatedOrder(MapGet(userTopRated, u))

\* C11: after any completed load, for every userId the list
\* userTopRated[userId] holds exactly that user's interactions of the
\* truncated sequence, with rating non-increasing along the list and
\* timestamp non-increasing among adjacent entries of equal rating.
TopRatedSortedAndComplete ==
    lastInput # "none" => TopRatedOfInteractions

\* ceil(n / B) for the batch size B of the configuration.
BatchCount(n) ==
    IF n % batchSize = 0 THEN n \div batchSize ELSE (n \div batchSize) + 1

\* The i-th loss (from 0) of run r over n interactions: the loss of block
\* [k*B, min((k+1)*B, n)) with k = i mod ceil(n/B), in epoch i div ceil(n/B).
ExpectedLoss(r, n, i) ==
    LET k == i % BatchCount(n)
    IN  [run |-> r, epoch |-> i \div BatchCount(n), start |-> k * batchSize,
         end |-> IF (k + 1) * batchSize <= n THEN (k + 1) * batchSize ELSE n]

ExpectedLosses(r, n, count) == [i \in 1..count |-> ExpectedLoss(r, n, i - 1)]

\* The batches a run at an await has the loss of.
BatchesRecorded(call) ==
    call.epoch * BatchCount(Len(call.userIndices)) + call.batch
        + (IF call.pc = "awaitFrame" THEN 1 ELSE 0)

\* A step in which a train() call passes the guard.
RunStartsStep == Len(trainCalls') > Len(trainCalls)

\* A step in which train() call r reaches its end.
RunCompletesStep(r) ==
    /\ r \in ActiveTrainCalls
    /\ trainCalls'[r].pc = "done"

\* C12: a train() run over n interactions with batch size B clears
\* lossHistory at its start and appends exactly one deep-model loss per
\* batch in processing order, the batches being the blocks
\* [k*B, min((k+1)*B, n)) in increasing k in every epoch; when the run
\* completes lossHistory has exactly epochs * ceil(n/B) entries and
\* isTraining is false.
LossPerBatchInOrder ==
    /\ [](\A r \in ActiveTrainCalls :
             lossHistory = ExpectedLosses(r, Len(trainCalls[r].userIndices),
                                          BatchesRecorded(trainCalls[r])))
    /\ [][RunStartsStep => lossHistory' = <<>>]_vars
    /\ [][\A r \in DOMAIN trainCalls :
             RunCompletesStep(r) =>
                /\ lossHistory' =
                      ExpectedLosses(r, Len(trainCalls[r].userIndices),
                          epochs * BatchCount(Len(trainCalls[r].userIndices)))
                /\ Len(lossHistory') =
                      epochs * BatchCount(Len(trainCalls[r].userIndices))
                /\ ~isTraining']_vars

\* A run of two batches per epoch has completed: the second loss is that of
\* the block starting at B, the next one that of block 0 of the next epoch.
TwoBatchRunCompleted ==
    /\ AnyTrainDone
    /\ ~isTraining
    /\ lastEvent = "trainStep"
    /\ Len(lossHistory) = epochs * 2
    /\ lossHistory[2].start = batchSize
    /\ lossHistory[3].epoch = 1
    /\ lossHistory[3].start = 0

\* A step in which train() call r gives a batch to the deep model's
\* trainStep (line 203).
DeepStepCalledBy(r) ==
    /\ r \in ActiveTrainCalls
    /\ trainCalls[r].pc = "awaitSimple"
    /\ trainCalls'[r].pc = "awaitDeep"
    /\ deepModel'.started = deepModel.started + 1

\* The positions of the batch that call is at.
BatchPositions(call) ==
    (call.batch * batchSize + 1)..
        Min((call.batch + 1) * batchSize, Len(call.userIndices))

\* At position k the reverse maps give the ids of the interaction the run
\* placed there, and both ids have a record in the stores.
FeaturesOfOwnInteraction(call, k) ==
    /\ MapGet(reverseUserMap, call.userIndices[k]) = call.userIds[k]
    /\ MapGet(reverseItemMap, call.itemIndices[k]) = call.itemIds[k]
    /\ MapHas(users, call.userIds[k])
    /\ MapHas(items, call.itemIds[k])

\* C13: throughout a train() run, the user and item feature vectors given
\* to the deep model at every batch position are those of the raw userId
\* and itemId of the interaction whose dense indices the run placed at that
\* position when it started, also when a load completes during the run.
BatchFeaturesOfOwnInteractions ==
    [][\A r \in DOMAIN trainCalls :
          DeepStepCalledBy(r) =>
             \A k \in BatchPositions(trainCalls[r]) :
                FeaturesOfOwnInteraction(trainCalls[r], k)]_vars

=============================================================================
